---- MODULE Spec2Model ----
(***************************************************************************)
(* Threat-Detection backend: the deduplicated ingestion path               *)
(* (routes/upload.py, image_storage.py, mongodb.py), the heartbeat state   *)
(* (routes/system.py), the WebSocket alert fan-out (routes/websocket.py)   *)
(* and the deduplicated queries (routes/detections.py).                    *)
(*                                                                         *)
(* Ingestion attempts are interleaved at their I/O points (image.read,     *)
(* find_one, the blob write, insert_one, os.remove, the second find_one);  *)
(* the code between two I/O points is one step.  The uuid suffix of a      *)
(* generated file name is modelled as fresh per attempt.                   *)
(***************************************************************************)
EXTENDS Integers, Sequences, FiniteSets, TLC

\* ------------------------------------------------------------------ bounds
MaxAttempts == 2
MaxEvents == 2
MaxChannels == 2
MaxInbound == 2
MaxBeats == 1

Attempts == 1..MaxAttempts
Channels == 1..MaxChannels

\* --------------------------------------------------------------- constants
UPLOADS_DIR == "uploads"
BASE_URL == "http://localhost:8000"
QUALIFYING == {"HIGH", "CRITICAL", "MEDIUM"}

\* Python's None, and the empty str
None == "None"

EmptyText == <<>>

\* A submission is the multipart form of POST /detect/upload.  image_bytes is
\* the payload as a sequence of bytes (<<>> is the empty payload), upload_name
\* the file name the client put on the image part.  The optional fields
\* confidence and location are None when the form leaves them out.
Sub(key, level, otype, cat, bytes, ctype, name) ==
    [unique_object_id |-> key, threat_level |-> level, object_type |-> otype,
     category |-> cat, image_bytes |-> bytes, content_type |-> ctype,
     upload_name |-> name, camera_id |-> "cam-1", confidence |-> None,
     location |-> None]

ValidSubmissions ==
    { Sub("obj-1", "HIGH", "weapon", "knife", <<1>>, "image/jpeg", "frame.jpg"),
      Sub("obj-1", "MEDIUM", "bag", "backpack", <<2, 2>>, "image/png", "other.png"),
      Sub("obj-2", "SAFE", "object", "misc", <<1>>, "image/jpeg", "frame.jpg"),
      [Sub("obj-2", "CRITICAL", "weapon", "gun", <<2, 2>>, "image/jpeg", "gun.jpg")
          EXCEPT !.camera_id = "cam-2", !.confidence = "0.9", !.location = "gate"] }

InvalidSubmissions ==
    { Sub("obj-1", "HIGH", "weapon", "knife", <<>>, "image/jpeg", "frame.jpg"),
      Sub("", "HIGH", "weapon", "knife", <<1>>, "image/jpeg", "frame.jpg"),
      Sub("obj-2", "HIGH", "weapon", "knife", <<1>>, "text/plain", "notes.txt") }

Submissions == ValidSubmissions \cup InvalidSubmissions

NoSub == Sub("", "", "", "", <<>>, "", "")

VARIABLES
    collection,          \* mongodb.py: TRUE iff detections_collection is not None
    detections,          \* the documents of threats_db.detections
    uploads,             \* the files of UPLOADS_DIR: a set of [path, bytes]
    system_state,        \* routes/system.py _system_state
    pc, sub,             \* per attempt: position in upload_detection, its form
    result,              \* per attempt: what store_image returned
    resp,                \* per attempt: the HTTP response
    faults,              \* history: the <<attempt, operation>> made to fail
    tasks,               \* per attempt: the broadcast_alert task it created
    query,               \* routes/detections.py: the last query and its answer
    twin,                \* the same attempts run through store_image without its pre-check
    active_connections,  \* manager.active_connections
    ws, open, outbox,    \* per channel: handler position, client up, messages sent
    stalled,             \* the channels whose client has stopped reading
    inbox                \* per channel: the texts receive_text has returned

vars == <<collection, detections, uploads, system_state, pc, sub, result, resp,
          faults, tasks, query, twin, active_connections, ws, open, outbox, stalled,
          inbox>>

ingestVars ==
    <<collection, detections, uploads, system_state, pc, sub, result, resp, faults,
      query, twin>>
wsVars == <<active_connections, ws, open, outbox, stalled, inbox>>

\* ------------------------------------------------------------ file naming
\* f"{object_type}_{category}_{timestamp}_{unique_id}.jpg": uid is the uuid
\* suffix, fresh per attempt.  A client-supplied name has gen = FALSE.
GeneratedName(otype, cat, uid) ==
    [gen |-> TRUE, object_type |-> otype, category |-> cat, uid |-> uid, client |-> ""]

ClientName(name) ==
    [gen |-> FALSE, object_type |-> "", category |-> "", uid |-> 0, client |-> name]

NoName == ClientName("")

FilePath(filename) == <<UPLOADS_DIR, filename>>

ImageUrl(filename) == <<BASE_URL, UPLOADS_DIR, filename>>

NoUrl == <<"", "", NoName>>
NoPath == <<"", NoName>>
\* --------------------------------------------------------- store contents
\* str(ObjectId)
ObjectIdStr(oid) == <<"ObjectId", oid>>

\* datetime.now() of attempt a's document, as a logical instant
Now(a) == a

NoResult ==
    [image_url |-> NoUrl, filename |-> NoName, document_id |-> ObjectIdStr(0),
     status |-> "none", message |-> ""]

NoResp == [code |-> 0, detail |-> "", data |-> NoResult]

\* {**base, **meta}: the keys of meta win
Merge(base, meta) ==
    [k \in (DOMAIN base) \cup (DOMAIN meta) |->
        IF k \in DOMAIN meta THEN meta[k] ELSE base[k]]

\* the dict without keys, and dict.get(k, default)
EmptyDict == [k \in {} |-> None]

Get(dict, k, default) == IF k \in DOMAIN dict THEN dict[k] ELSE default

\* upload.py 47-59: the metadata dict handed to store_image; confidence and
\* location are keys of it only when the form carried them
Metadata(s) ==
    Merge(Merge([camera_id |-> s.camera_id,
                 unique_object_id |-> s.unique_object_id,
                 filename |-> ClientName(s.upload_name),
                 content_type |-> s.content_type,
                 file_size |-> Len(s.image_bytes)],
                IF s.confidence # None THEN [confidence |-> s.confidence]
                ELSE EmptyDict),
          IF s.location # None THEN [location |-> s.location] ELSE EmptyDict)

\* faulty variant: the stored threat_level is derived from the object type
\* instead of being taken from the submission
DocumentReclassified(a, s) ==
    LET filename == GeneratedName(s.object_type, s.category, a)
    IN  Merge([image_url |-> ImageUrl(filename),
               filename |-> filename,
               filepath |-> FilePath(filename),
               object_type |-> s.object_type,
               category |-> s.category,
               threat_level |-> IF s.object_type = "weapon" THEN "HIGH" ELSE "SAFE",
               timestamp |-> Now(a)],
              Metadata(s))

\* image_storage.py: the document store_image builds for attempt a
Document(a, s) ==
    LET filename == GeneratedName(s.object_type, s.category, a)
    IN  Merge([image_url |-> ImageUrl(filename),
               filename |-> filename,
               filepath |-> FilePath(filename),
               object_type |-> s.object_type,
               category |-> s.category,
               threat_level |-> s.threat_level,
               timestamp |-> Now(a)],
              Metadata(s))

\* faulty variant: the collection is taken to be there without looking
AssumedCollection == TRUE

\* mongodb.py get_detections_collection: returns detections_collection, which
\* is None when the client could not be built; TRUE stands for "not None"
get_detections_collection == collection

\* collection.find_one({"unique_object_id": key}): the matching documents in
\* natural (insertion) order; find_one returns the first or None
Matching(key) ==
    SelectSeq(detections, LAMBDA d : d.unique_object_id = key)

\* faulty variant: the index was not created; insert_one never raises DuplicateKeyError
NoUniqueIndex(key) == FALSE

\* the unique index unique_object_id_index: insert_one raises
\* DuplicateKeyError iff a document with the key is already stored
DuplicateKey(key) ==
    \E i \in 1..Len(detections) : detections[i].unique_object_id = key

\* insert_one: the collection assigns _id
Stored(doc, oid) == Merge(doc, [_id |-> oid])

\* the dict store_image returns for an existing document
DuplicateResult(existing, msg) ==
    [image_url |-> existing.image_url,
     filename |-> existing.filename,
     document_id |-> ObjectIdStr(existing._id),
     status |-> "duplicate",
     message |-> msg]

\* the dict store_image returns after insert_one
SuccessResult(a, s, oid) ==
    LET filename == GeneratedName(s.object_type, s.category, a)
    IN  [image_url |-> ImageUrl(filename),
         filename |-> filename,
         document_id |-> ObjectIdStr(oid),
         status |-> "success",
         message |-> "New detection stored successfully"]

\* upload.py 76-88: the alert_data dict; metadata.get("timestamp", "") reads
\* the dict built at 47-59
AlertData(s, res) ==
    [object_type |-> s.object_type,
     category |-> s.category,
     threat_level |-> s.threat_level,
     camera_id |-> s.camera_id,
     unique_object_id |-> s.unique_object_id,
     timestamp |-> Get(Metadata(s), "timestamp", EmptyText),
     confidence |-> s.confidence,
     location |-> s.location,
     image_url |-> res.image_url,
     filename |-> res.filename,
     document_id |-> res.document_id]

NoTask ==
    [st |-> "none", alert |-> AlertData(NoSub, NoResult), idx |-> 0, cur |-> 0,
     disconnected |-> <<>>, attempted |-> {}, start |-> <<>>, pruned |-> {}]

\* faulty variant: every created detection is broadcast, whatever its level
QualifiesAnyLevel(level) == TRUE

\* upload.py: "if threat_level in ['HIGH', 'CRITICAL', 'MEDIUM']"
Qualifies(level) == level \in QUALIFYING

\* asyncio.create_task(broadcast_alert(alert_data)): the task is queued on the
\* event loop and has not run when the handler returns
CreateTask(s, res) ==
    [NoTask EXCEPT !.st = "queued", !.alert = AlertData(s, res)]

\* HTTPException(status_code, detail) and the 200 body
HttpError(code, detail) == [code |-> code, detail |-> detail, data |-> NoResult]

HttpOk(res) == [code |-> 200, detail |-> "", data |-> res]

\* faulty variant: the content type is not checked
IsImageUnchecked(ctype) == TRUE

\* content_type.startswith("image/")
IsImage(ctype) == ctype \in {"image/jpeg", "image/png"}

\* routes/system.py update_frame_timestamp; last_frame_time is a logical
\* instant (0 is None) that every refresh advances
update_frame_timestamp(st) ==
    [st EXCEPT !.ai_running = TRUE, !.last_frame_time = st.last_frame_time + 1]

\* ------------------------------------------------------------- blob files
\* open(filepath, 'wb') + write: creates or overwrites the file
WriteFile(files, path, bytes) ==
    {f \in files : f.path # path} \cup {[path |-> path, bytes |-> bytes]}

\* faulty variant: the cleanup leaves the file in place
RemoveNothing(files, path) == files

\* faulty variant: the cleanup removes every file of the uploads directory
RemoveEverything(files, path) == {}

\* os.remove(filepath)
RemoveFile(files, path) == {f \in files : f.path # path}

\* the local variables of store_image in attempt a
FileNameOf(a) == GeneratedName(sub[a].object_type, sub[a].category, a)

FilePathOf(a) == FilePath(FileNameOf(a))

\* ------------------------------------------------------------ query answers
\* the counts of get_detection_stats: by_type and by_threat_level
StatTypes == {"person", "weapon", "bag", "object"}

StatLevels == {"SAFE", "MEDIUM", "HIGH", "CRITICAL"}

NoCounts == [k \in StatTypes \cup StatLevels |-> 0]

\* The answer of a query handler.  Every query handler returns a dict, which
\* the framework sends with status 200; keys is the set of keys of that dict,
\* items the list under "detections" or "alerts".
Answer(kind, otype, level, limit, skip, keys, items, total, counts, error) ==
    [kind |-> kind, object_type |-> otype, threat_level |-> level,
     limit |-> limit, skip |-> skip, status_code |-> 200, keys |-> keys,
     items |-> items, total |-> total, counts |-> counts, error |-> error]

NoQuery == [Answer("none", "", "", 0, 0, {}, <<>>, 0, NoCounts, "")
               EXCEPT !.status_code = 0]

\* ------------------------------------------- store_image without pre-check
\* The twin runs the attempts of the model through upload_detection with a
\* store_image whose pre-check (image_storage.py 55-63) reports "absent":
\* its own collection and uploads directory, and per attempt its position,
\* the dict store_image returned, the response and the number of steps taken.
NoTwin ==
    [detections |-> <<>>, uploads |-> {},
     pc |-> [a \in Attempts |-> "idle"],
     result |-> [a \in Attempts |-> NoResult],
     resp |-> [a \in Attempts |-> NoResp],
     n |-> [a \in Attempts |-> 0]]

\* ------------------------------------------------------------------- Init
InitIngest ==
    /\ collection \in BOOLEAN
    /\ detections = <<>>
    /\ uploads = {}
    /\ system_state = [ai_running |-> FALSE, last_frame_time |-> 0, start_time |-> 0]
    /\ pc = [a \in Attempts |-> "idle"]
    /\ sub = [a \in Attempts |-> NoSub]
    /\ result = [a \in Attempts |-> NoResult]
    /\ resp = [a \in Attempts |-> NoResp]
    /\ faults = {}
    /\ tasks = [a \in Attempts |-> NoTask]
    /\ query = NoQuery
    /\ twin = NoTwin

InitFanout ==
    /\ active_connections = <<>>
    /\ ws = [c \in Channels |-> "idle"]
    /\ open = [c \in Channels |-> FALSE]
    /\ outbox = [c \in Channels |-> <<>>]
    /\ stalled = {}
    /\ inbox = [c \in Channels |-> <<>>]

Init == InitIngest /\ InitFanout

\* ------------------------------------------------- upload_detection steps
\* the handler ends: the response goes to the caller
Finish(a, response) ==
    /\ resp' = [resp EXCEPT ![a] = response]
    /\ pc' = [pc EXCEPT ![a] = "done"]

\* the storage or file operation op of attempt a was made to fail
Fault(a, failed, op) ==
    faults' = IF failed THEN faults \cup {<<a, op>>} ELSE faults

\* faulty variant: the alert is handed over before the duplicate status is looked at
RespondAlertFirst(a, res) ==
    /\ result' = [result EXCEPT ![a] = res]
    /\ tasks' = [tasks EXCEPT ![a] =
            IF Qualifies(sub[a].threat_level) THEN CreateTask(sub[a], res) ELSE @]
    /\ IF res.status = "duplicate"
       THEN Finish(a, HttpError(409, "Duplicate detection"))
       ELSE Finish(a, HttpOk(res))

\* faulty variant: the handler sends to the subscribers itself and a failed send (or
\* an empty live set) fails the request
RespondCoupled(a, res) ==
    /\ result' = [result EXCEPT ![a] = res]
    /\ IF res.status = "duplicate"
       THEN /\ Finish(a, HttpError(409, "Duplicate detection"))
            /\ UNCHANGED tasks
       ELSE IF Qualifies(sub[a].threat_level)
               /\ (active_connections = <<>>
                   \/ \E i \in 1..Len(active_connections) : ~open[active_connections[i]])
       THEN /\ Finish(a, HttpError(500, "broadcast failed"))
            /\ UNCHANGED tasks
       ELSE /\ tasks' = [tasks EXCEPT ![a] =
                    IF Qualifies(sub[a].threat_level)
                    THEN CreateTask(sub[a], res) ELSE @]
            /\ Finish(a, HttpOk(res))

\* upload.py 69-95: what the handler does with the dict store_image returned.
\* A duplicate is answered 409 and nothing else happens; otherwise a
\* qualifying alert is handed to the event loop and the answer is 200.
Respond(a, res) ==
    /\ result' = [result EXCEPT ![a] = res]
    /\ IF res.status = "duplicate"
       THEN /\ Finish(a, HttpError(409, "Duplicate detection"))
            /\ UNCHANGED tasks
       ELSE /\ tasks' = [tasks EXCEPT ![a] =
                    IF Qualifies(sub[a].threat_level)
                    THEN CreateTask(sub[a], res) ELSE @]
            /\ Finish(a, HttpOk(res))

\* upload.py 97-100: an exception of store_image is answered 500
Raise(a, code, detail) ==
    /\ Finish(a, HttpError(code, detail))
    /\ UNCHANGED <<result, tasks>>

\* faulty variant: the heartbeat is refreshed only once the content type has
\* been accepted
StartValidatedFirst(a, s) ==
    /\ pc[a] = "idle"
    /\ IF a = 1 THEN TRUE ELSE pc[a - 1] # "idle"
    /\ sub' = [sub EXCEPT ![a] = s]
    /\ IF ~IsImage(s.content_type)
       THEN /\ Raise(a, 400, "File must be an image")
            /\ UNCHANGED system_state
       ELSE /\ system_state' = update_frame_timestamp(system_state)
            /\ pc' = [pc EXCEPT ![a] = "read"]
            /\ UNCHANGED <<resp, result, tasks>>
    /\ UNCHANGED <<collection, detections, uploads, faults, wsVars, query, twin>>

\* upload.py 36-39: heartbeat, content-type check, then await image.read()
Start(a, s) ==
    /\ pc[a] = "idle"
    /\ IF a = 1 THEN TRUE ELSE pc[a - 1] # "idle"
    /\ system_state' = update_frame_timestamp(system_state)
    /\ sub' = [sub EXCEPT ![a] = s]
    /\ IF ~IsImage(s.content_type)
       THEN Raise(a, 400, "File must be an image")
       ELSE /\ pc' = [pc EXCEPT ![a] = "read"]
            /\ UNCHANGED <<resp, result, tasks>>
    /\ UNCHANGED <<collection, detections, uploads, faults, wsVars, query, twin>>

\* upload.py 41-67 and image_storage.py 44-63: image.read() returns; the empty
\* payload check; store_image up to the outcome of the find_one pre-check.
\* dbError: find_one raises.
ReadAndPrecheck(a, dbError) ==
    /\ pc[a] = "read"
    /\ LET s == sub[a]
           existing == Matching(s.unique_object_id)
       IN  IF Len(s.image_bytes) = 0
           THEN Raise(a, 400, "Empty image file") /\ UNCHANGED faults
           ELSE IF s.unique_object_id = ""
           THEN Raise(a, 500, "unique_object_id is required in metadata")
                /\ UNCHANGED faults
           ELSE IF ~get_detections_collection
           THEN Raise(a, 500, "Detections collection not available")
                /\ UNCHANGED faults
           ELSE /\ Fault(a, dbError, "find_one")
                /\ IF dbError
                   THEN Raise(a, 500, "find_one failed")
                   ELSE IF existing # <<>>
                   THEN Respond(a, DuplicateResult(Head(existing),
                                                   "already exists in database"))
                   ELSE /\ pc' = [pc EXCEPT ![a] = "write"]
                        /\ UNCHANGED <<resp, result, tasks>>
    /\ UNCHANGED <<collection, detections, uploads, system_state, sub, wsVars, query, twin>>

\* faulty variant: a failed blob write is ignored and the attempt goes on to
\* insert_one
WriteBlobUnchecked(a, outcome) ==
    /\ pc[a] = "write"
    /\ Fault(a, outcome # "ok", "write")
    /\ uploads' = IF outcome = "ok"
                  THEN WriteFile(uploads, FilePathOf(a), sub[a].image_bytes)
                  ELSE IF outcome = "truncated"
                  THEN WriteFile(uploads, FilePathOf(a), <<>>)
                  ELSE uploads
    /\ pc' = [pc EXCEPT ![a] = "insert"]
    /\ UNCHANGED <<resp, result, tasks>>
    /\ UNCHANGED <<collection, detections, system_state, sub, wsVars, query, twin>>

\* image_storage.py 65-74: the blob write.  A failed write leaves either no
\* file (open failed) or a truncated one (write failed).
WriteBlob(a, outcome) ==
    /\ pc[a] = "write"
    /\ Fault(a, outcome # "ok", "write")
    /\ IF outcome = "ok"
       THEN /\ uploads' = WriteFile(uploads, FilePathOf(a), sub[a].image_bytes)
            /\ pc' = [pc EXCEPT ![a] = "insert"]
            /\ UNCHANGED <<resp, result, tasks>>
       ELSE /\ uploads' = IF outcome = "truncated"
                          THEN WriteFile(uploads, FilePathOf(a), <<>>)
                          ELSE uploads
            /\ Raise(a, 500, "Failed to save image file")
    /\ UNCHANGED <<collection, detections, system_state, sub, wsVars, query, twin>>

\* faulty variant: DuplicateKeyError is not caught and is answered 500
OnDuplicateKeyUncaught(a) ==
    /\ Finish(a, HttpError(500, "E11000 duplicate key error"))
    /\ UNCHANGED <<result, tasks>>

\* image_storage.py 98: "except DuplicateKeyError" takes the attempt to the
\* cleanup of its blob
OnDuplicateKey(a) ==
    /\ pc' = [pc EXCEPT ![a] = "remove"]
    /\ UNCHANGED <<result, resp, tasks>>

\* faulty variant: the document is written with replace-or-insert, so a later
\* attempt for a stored key overwrites the record
ReplaceRecord(a, dbError) ==
    /\ pc[a] = "insert"
    /\ Fault(a, dbError, "insert_one")
    /\ LET s == sub[a]
           doc == Stored(Document(a, s), a)
       IN  IF dbError
           THEN /\ Raise(a, 500, "insert_one failed")
                /\ UNCHANGED detections
           ELSE /\ detections' =
                      IF DuplicateKey(s.unique_object_id)
                      THEN [i \in 1..Len(detections) |->
                               IF detections[i].unique_object_id = s.unique_object_id
                               THEN doc ELSE detections[i]]
                      ELSE Append(detections, doc)
                /\ Respond(a, SuccessResult(a, s, a))
    /\ UNCHANGED <<collection, uploads, system_state, sub, wsVars, query, twin>>

\* image_storage.py 89-98: insert_one.  On success store_image returns the
\* success dict.  DuplicateKeyError leads to the cleanup; any other error of
\* insert_one propagates and is answered 500.
InsertRecord(a, dbError) ==
    /\ pc[a] = "insert"
    /\ Fault(a, dbError, "insert_one")
    /\ LET s == sub[a]
       IN  IF dbError
           THEN /\ Raise(a, 500, "insert_one failed")
                /\ UNCHANGED detections
           ELSE IF DuplicateKey(s.unique_object_id)
           THEN /\ OnDuplicateKey(a)
                /\ UNCHANGED detections
           ELSE /\ detections' = Append(detections, Stored(Document(a, s), a))
                /\ Respond(a, SuccessResult(a, s, a))
    /\ UNCHANGED <<collection, uploads, system_state, sub, wsVars, query, twin>>

\* image_storage.py 99-102: os.remove(filepath), its failure swallowed
RetractBlob(a, removed) ==
    /\ pc[a] = "remove"
    /\ Fault(a, ~removed, "remove")
    /\ uploads' = IF removed THEN RemoveFile(uploads, FilePathOf(a)) ELSE uploads
    /\ pc' = [pc EXCEPT ![a] = "refetch"]
    /\ UNCHANGED <<collection, detections, system_state, sub, result, resp, tasks, wsVars, query, twin>>

\* image_storage.py 104-111: the second find_one and the duplicate dict built
\* from it; existing.get on None raises
Refetch(a, dbError) ==
    /\ pc[a] = "refetch"
    /\ Fault(a, dbError, "find_one")
    /\ LET existing == Matching(sub[a].unique_object_id)
       IN  IF dbError
           THEN Raise(a, 500, "find_one failed")
           ELSE IF existing = <<>>
           THEN Raise(a, 500, "NoneType has no attribute get")
           ELSE Respond(a, DuplicateResult(Head(existing),
                                           "Duplicate unique_object_id"))
    /\ UNCHANGED <<collection, detections, uploads, system_state, sub, wsVars, query, twin>>

Ingest(a) ==
    \/ \E dbError \in BOOLEAN : ReadAndPrecheck(a, dbError)
    \/ \E outcome \in {"ok", "nofile", "truncated"} : WriteBlob(a, outcome)
    \/ \E dbError \in BOOLEAN : InsertRecord(a, dbError)
    \/ \E removed \in BOOLEAN : RetractBlob(a, removed)
    \/ \E dbError \in BOOLEAN : Refetch(a, dbError)

NextIngest ==
    \E a \in Attempts :
        \/ \E s \in Submissions : Start(a, s)
        \/ Ingest(a)

SpecIngest == Init /\ [][NextIngest]_vars

\* ------------------------------------- the twin: store_image, no pre-check
\* the twin's attempt a goes on to position to
TwinGoto(t, a, to) == [t EXCEPT !.pc[a] = to, !.n[a] = @ + 1]

\* the twin's handler ends with an HTTPException
TwinRaise(t, a, code, detail) ==
    [t EXCEPT !.pc[a] = "done", !.resp[a] = HttpError(code, detail), !.n[a] = @ + 1]

\* upload.py 69-95 in the twin: 409 for a duplicate dict, 200 otherwise
TwinRespond(t, a, res) ==
    [t EXCEPT !.pc[a] = "done", !.result[a] = res, !.n[a] = @ + 1,
              !.resp[a] = IF res.status = "duplicate"
                          THEN HttpError(409, "Duplicate detection")
                          ELSE HttpOk(res)]

\* find_one and the unique index over the twin's collection
TwinMatching(t, key) ==
    SelectSeq(t.detections, LAMBDA d : d.unique_object_id = key)

TwinDuplicateKey(t, key) == TwinMatching(t, key) # <<>>

\* The next step of attempt a in the twin, fault-free: the steps of
\* upload_detection and store_image in the order of the code, with the
\* find_one of the pre-check left out of the "read" step.
TwinStep(t, a) ==
    LET s == sub[a]
        key == s.unique_object_id
    IN  CASE t.pc[a] = "idle" ->
                IF ~IsImage(s.content_type)
                THEN TwinRaise(t, a, 400, "File must be an image")
                ELSE TwinGoto(t, a, "read")
          [] t.pc[a] = "read" ->
                IF Len(s.image_bytes) = 0
                THEN TwinRaise(t, a, 400, "Empty image file")
                ELSE IF key = ""
                THEN TwinRaise(t, a, 500, "unique_object_id is required in metadata")
                ELSE IF ~get_detections_collection
                THEN TwinRaise(t, a, 500, "Detections collection not available")
                ELSE TwinGoto(t, a, "write")
          [] t.pc[a] = "write" ->
                [TwinGoto(t, a, "insert") EXCEPT
                    !.uploads = WriteFile(t.uploads, FilePathOf(a), s.image_bytes)]
          [] t.pc[a] = "insert" ->
                IF TwinDuplicateKey(t, key)
                THEN TwinGoto(t, a, "remove")
                ELSE [TwinRespond(t, a, SuccessResult(a, s, a)) EXCEPT
                        !.detections = Append(t.detections, Stored(Document(a, s), a))]
          [] t.pc[a] = "remove" ->
                [TwinGoto(t, a, "refetch") EXCEPT
                    !.uploads = RemoveFile(t.uploads, FilePathOf(a))]
          [] t.pc[a] = "refetch" ->
                TwinRespond(t, a, DuplicateResult(Head(TwinMatching(t, key)),
                                                  "Duplicate unique_object_id"))
          [] OTHER -> t

\* the number of steps attempt a has taken in the model, fault-free: the
\* steps are Start, ReadAndPrecheck, WriteBlob, InsertRecord, RetractBlob,
\* Refetch, and an attempt that is done ended in the step its response names
MainSteps(a) ==
    CASE pc[a] = "idle" -> 0
      [] pc[a] = "read" -> 1
      [] pc[a] = "write" -> 2
      [] pc[a] = "insert" -> 3
      [] pc[a] = "remove" -> 4
      [] pc[a] = "refetch" -> 5
      [] pc[a] = "done" /\ resp[a].detail = "File must be an image" -> 1
      [] pc[a] = "done" /\ resp[a].code = 200 -> 4
      [] pc[a] = "done" /\ result[a].message = "Duplicate unique_object_id" -> 6
      [] OTHER -> 2

\* the twin has not yet taken the step attempt a took in the model
Behind(a) == twin.n[a] < MainSteps(a)

InStep == \A b \in Attempts : ~Behind(b)

\* a schedule slot of attempt a, first half: the model takes a's next step
PairMain(a) ==
    /\ InStep
    /\ \/ \E s \in Submissions : Start(a, s)
       \/ ReadAndPrecheck(a, FALSE)
       \/ WriteBlob(a, "ok")
       \/ InsertRecord(a, FALSE)
       \/ RetractBlob(a, TRUE)
       \/ Refetch(a, FALSE)

\* second half of the slot: the twin takes a's next step
TwinFollow(a) ==
    /\ Behind(a)
    /\ twin' = TwinStep(twin, a)
    /\ UNCHANGED <<collection, detections, uploads, system_state, pc, sub, result,
                   resp, faults, tasks, query, wsVars>>

\* a slot of an attempt that has ended in the model while the twin, which
\* did not stop at the pre-check, still has steps to take
TwinAlone(a) ==
    /\ InStep
    /\ pc[a] = "done"
    /\ twin.pc[a] # "done"
    /\ twin' = TwinStep(twin, a)
    /\ UNCHANGED <<collection, detections, uploads, system_state, pc, sub, result,
                   resp, faults, tasks, query, wsVars>>

NextTwin ==
    \E a \in Attempts :
        \/ PairMain(a)
        \/ TwinFollow(a)
        \/ TwinAlone(a)

\* every schedule of the attempts' steps, run by the model and by the twin
SpecTwin == Init /\ [][NextTwin]_vars

\* ------------------------------------------------------ websocket_alerts
ConnectionMessage == [type |-> "connection", data |-> AlertData(NoSub, NoResult)]

AlertMessage(alert) == [type |-> "alert", data |-> alert]

Range(seq) == {seq[i] : i \in 1..Len(seq)}

IndexOf(seq, x) == CHOOSE i \in 1..Len(seq) : seq[i] = x

InSeq(seq, x) == \E i \in 1..Len(seq) : seq[i] = x

\* list.remove(x): drops the first occurrence of x
ListRemove(seq, x) ==
    LET i == IndexOf(seq, x)
    IN  [j \in 1..(Len(seq) - 1) |-> IF j < i THEN seq[j] ELSE seq[j + 1]]

\* faulty variant: a new subscriber is sent the alerts of the passes that have
\* already completed
ConnectReplaying(c) ==
    /\ ws[c] = "idle"
    /\ IF c = 1 THEN TRUE ELSE ws[c - 1] # "idle"
    /\ active_connections' = Append(active_connections, c)
    /\ open' = [open EXCEPT ![c] = TRUE]
    /\ ws' = [ws EXCEPT ![c] = "greet"]
    /\ outbox' = [outbox EXCEPT ![c] =
            LET done == SelectSeq([a \in 1..MaxAttempts |-> a],
                                  LAMBDA a : tasks[a].st = "done")
            IN  [i \in 1..Len(done) |-> [type |-> "alert", data |-> tasks[done[i]].alert]]]
    /\ UNCHANGED <<ingestVars, inbox, tasks, stalled>>

\* websocket.py 15-18 (ConnectionManager.connect): accept, then append
Connect(c) ==
    /\ ws[c] = "idle"
    /\ IF c = 1 THEN TRUE ELSE ws[c - 1] # "idle"
    /\ active_connections' = Append(active_connections, c)
    /\ open' = [open EXCEPT ![c] = TRUE]
    /\ ws' = [ws EXCEPT ![c] = "greet"]
    /\ UNCHANGED <<ingestVars, inbox, tasks, outbox, stalled>>

\* the client goes away while the handler is suspended in a send or receive
ClientDrop(c) ==
    /\ open[c]
    /\ ws[c] \in {"greet", "recv", "pong"}
    /\ open' = [open EXCEPT ![c] = FALSE]
    /\ UNCHANGED <<ingestVars, inbox, tasks, active_connections, ws, outbox, stalled>>

\* the client stops reading while its connection stays up: from then on a
\* send_json to it is awaited without end
Stall(c) ==
    /\ open[c]
    /\ c \notin stalled
    /\ ws[c] \in {"greet", "recv", "pong"}
    /\ stalled' = stalled \cup {c}
    /\ UNCHANGED <<ingestVars, inbox, tasks, active_connections, ws, open, outbox>>

\* an awaited send_json to c does not return
Stalled(c) == open[c] /\ c \in stalled

\* websocket.py 20-22 (ConnectionManager.disconnect): list.remove raises
\* ValueError when the websocket is not in the list
Disconnect(c) ==
    IF InSeq(active_connections, c)
    THEN /\ active_connections' = ListRemove(active_connections, c)
         /\ ws' = [ws EXCEPT ![c] = "closed"]
    ELSE /\ ws' = [ws EXCEPT ![c] = "crashed"]
         /\ UNCHANGED active_connections

\* faulty variant: the handler sends the connection message again whenever
\* it is about to wait for the client
GreetRepeating(c) ==
    /\ ws[c] = "greet"
    /\ ~Stalled(c)
    /\ IF open[c]
       THEN /\ outbox' = [outbox EXCEPT ![c] =
                    @ \o <<[type |-> "connection", data |-> AlertData(NoSub, NoResult)],
                           [type |-> "connection", data |-> AlertData(NoSub, NoResult)]>>]
            /\ ws' = [ws EXCEPT ![c] = "recv"]
            /\ UNCHANGED active_connections
       ELSE /\ ws' = [ws EXCEPT ![c] = "closed"]
            /\ UNCHANGED <<outbox, active_connections>>
    /\ UNCHANGED <<ingestVars, inbox, tasks, open, stalled>>

\* websocket.py 51-58 and 73-77: the initial send_json; when it raises, the
\* handler calls manager.disconnect
Greet(c) ==
    /\ ws[c] = "greet"
    /\ ~Stalled(c)
    /\ IF open[c]
       THEN /\ outbox' = [outbox EXCEPT ![c] = Append(@, ConnectionMessage)]
            /\ ws' = [ws EXCEPT ![c] = "recv"]
            /\ UNCHANGED active_connections
       ELSE /\ Disconnect(c)
            /\ UNCHANGED outbox
    /\ UNCHANGED <<ingestVars, inbox, tasks, open, stalled>>

\* websocket.py 60-71: receive_text raises WebSocketDisconnect, the loop
\* breaks and the handler returns; manager.disconnect is not called
ReceiveDisconnect(c) ==
    /\ ws[c] = "recv"
    /\ ~open[c]
    /\ ws' = [ws EXCEPT ![c] = "closed"]
    /\ UNCHANGED <<ingestVars, inbox, tasks, active_connections, open, outbox, stalled>>

\* the texts a client sends
Inbound == {"ping", "PING", "status"}

PongMessage == [type |-> "pong", data |-> AlertData(NoSub, NoResult)]

\* faulty variant: every inbound text is answered with a pong
IsPingAnyText(data) == TRUE

\* websocket.py 64: if data == "ping"
IsPing(data) == data = "ping"

\* websocket.py 62-65: receive_text returns data; for a ping the handler
\* calls send_json({"type": "pong"}) and awaits it, for any other text it
\* goes round the loop
Receive(c, data) ==
    /\ ws[c] = "recv"
    /\ open[c]
    /\ Len(inbox[c]) < MaxInbound
    /\ inbox' = [inbox EXCEPT ![c] = Append(@, data)]
    /\ ws' = [ws EXCEPT ![c] = IF IsPing(data) THEN "pong" ELSE "recv"]
    /\ UNCHANGED <<ingestVars, tasks, active_connections, open, outbox, stalled>>

\* websocket.py 65-71: the awaited send of the pong returns and the handler
\* is back in receive_text, or it raises, the loop breaks and the handler
\* returns; manager.disconnect is not called
Pong(c) ==
    /\ ws[c] = "pong"
    /\ ~Stalled(c)
    /\ IF open[c]
       THEN /\ outbox' = [outbox EXCEPT ![c] = Append(@, PongMessage)]
            /\ ws' = [ws EXCEPT ![c] = "recv"]
       ELSE /\ ws' = [ws EXCEPT ![c] = "closed"]
            /\ UNCHANGED outbox
    /\ UNCHANGED <<ingestVars, inbox, tasks, active_connections, open, stalled>>

\* -------------------------------------------- ConnectionManager.broadcast
\* websocket.py 34-38: after the loop, every channel of disconnected that is
\* still in the list is removed
RECURSIVE Prune(_, _)
Prune(live, disconnected) ==
    IF disconnected = <<>> THEN live
    ELSE Prune(IF InSeq(live, Head(disconnected))
               THEN ListRemove(live, Head(disconnected)) ELSE live,
               Tail(disconnected))

\* "for connection in self.active_connections": the list iterator holds an
\* index into the live list itself; next() yields live[idx] while
\* idx < len(live).  The task then suspends in "await connection.send_json";
\* when the iterator is exhausted the pruning loop runs (it has no await) and
\* the task ends.
Advance(a, t) ==
    IF t.idx < Len(active_connections)
    THEN /\ tasks' = [tasks EXCEPT ![a] =
                [t EXCEPT !.st = "sending", !.idx = t.idx + 1,
                          !.cur = active_connections[t.idx + 1]]]
         /\ UNCHANGED active_connections
    ELSE LET pruned == Prune(active_connections, t.disconnected)
         IN  /\ active_connections' = pruned
             /\ tasks' = [tasks EXCEPT ![a] =
                    [t EXCEPT !.st = "done", !.cur = 0,
                              !.pruned = Range(active_connections) \ Range(pruned)]]

\* websocket.py 80-93 and 27-31: the event loop starts the task.  start (the
\* live list at that moment), attempted (the channels a send was awaited
\* for) and pruned (the channels the pass removed) are history.
BroadcastStart(a) ==
    /\ tasks[a].st = "queued"
    /\ Advance(a, [tasks[a] EXCEPT !.disconnected = <<>>, !.idx = 0,
                                   !.start = active_connections])
    /\ UNCHANGED <<ingestVars, inbox, ws, open, outbox, stalled>>

\* websocket.py 15-18 and 51-56: connect appends the websocket and the handler
\* calls send_json for the greeting with no await in between, so a broadcast
\* can call send_json for that websocket only after the greeting's send_json
\* was called.  The messages of one websocket go out in the order of the
\* calls: while the greeting is on its way, a later message is behind it.
GreetingPending(c) == ws[c] = "greet"

\* websocket.py 30-33: the awaited send_json to cur returns or raises; a send
\* to a client that is gone raises and the channel is put on disconnected
SendDone(a) ==
    /\ tasks[a].st = "sending"
    /\ ~Stalled(tasks[a].cur)
    /\ open[tasks[a].cur] => ~GreetingPending(tasks[a].cur)
    /\ LET t == tasks[a]
           c == t.cur
       IN  IF open[c]
           THEN /\ outbox' = [outbox EXCEPT ![c] = Append(@, AlertMessage(t.alert))]
                /\ Advance(a, [t EXCEPT !.attempted = @ \cup {c}])
           ELSE /\ UNCHANGED outbox
                /\ Advance(a, [t EXCEPT !.attempted = @ \cup {c},
                                        !.disconnected = Append(@, c)])
    /\ UNCHANGED <<ingestVars, inbox, ws, open, stalled>>

\* ------------------------------------- the broadcaster with slow clients
\* The state after one ingestion of a qualifying submission has been answered
\* created without a fault: its record and blob are stored, its
\* broadcast_alert task is queued, and no channel has connected yet.
InitLive ==
    \E s \in {v \in ValidSubmissions : Qualifies(v.threat_level)} :
        LET res == SuccessResult(1, s, 1)
        IN  /\ collection = TRUE
            /\ detections = <<Stored(Document(1, s), 1)>>
            /\ uploads = WriteFile({}, FilePath(res.filename), s.image_bytes)
            /\ system_state = update_frame_timestamp(
                    [ai_running |-> FALSE, last_frame_time |-> 0, start_time |-> 0])
            /\ pc = [a \in Attempts |-> IF a = 1 THEN "done" ELSE "idle"]
            /\ sub = [a \in Attempts |-> IF a = 1 THEN s ELSE NoSub]
            /\ result = [a \in Attempts |-> IF a = 1 THEN res ELSE NoResult]
            /\ resp = [a \in Attempts |-> IF a = 1 THEN HttpOk(res) ELSE NoResp]
            /\ faults = {}
            /\ tasks = [a \in Attempts |-> IF a = 1 THEN CreateTask(s, res) ELSE NoTask]
            /\ query = NoQuery
            /\ twin = NoTwin
            /\ InitFanout

\* the channels connect, are greeted and may stop reading; the queued
\* broadcast runs
NextLive ==
    \/ \E a \in Attempts :
          \/ BroadcastStart(a)
          \/ SendDone(a)
    \/ \E c \in Channels :
          \/ Connect(c)
          \/ Stall(c)
          \/ Greet(c)

\* the event loop runs every task that is ready: a queued broadcast is
\* started, a send that has returned is followed by the next step of the
\* loop, and a handler whose greeting has gone out moves on
SpecLive ==
    /\ InitLive
    /\ [][NextLive]_vars
    /\ \A a \in Attempts : WF_vars(BroadcastStart(a)) /\ WF_vars(SendDone(a))
    /\ \A c \in Channels : WF_vars(Greet(c))

\* ------------------------------------------ the channels and their clients
\* the subscribers of /ws/alerts with their inbound texts, next to the
\* broadcast of one created detection
NextSocket ==
    \/ \E a \in Attempts :
          \/ BroadcastStart(a)
          \/ SendDone(a)
    \/ \E c \in Channels :
          \/ Connect(c)
          \/ ClientDrop(c)
          \/ Greet(c)
          \/ \E data \in Inbound : Receive(c, data)
          \/ Pong(c)
          \/ ReceiveDisconnect(c)

SpecSocket == InitLive /\ [][NextSocket]_vars

\* ---------------------------------------------------- routes/detections.py
\* a query filter is a dict from field names to the accepted values: an
\* equality condition is a one-value set, {"$in": [...]} the set of the list
EmptyFilter == [k \in {} |-> {}]

\* str.upper() on the threat-level strings
Upper(str) ==
    CASE str = "safe" -> "SAFE"
      [] str = "medium" -> "MEDIUM"
      [] str = "high" -> "HIGH"
      [] str = "critical" -> "CRITICAL"
      [] OTHER -> str

\* get_detections 30-34: "if object_type:" and "if threat_level:" are false
\* for None and for the empty string
ListFilter(otype, level) ==
    Merge(IF otype # "" THEN [object_type |-> {otype}] ELSE EmptyFilter,
          IF level # "" THEN [threat_level |-> {Upper(level)}] ELSE EmptyFilter)

\* get_alerts 137-139
AlertsFilter == [threat_level |-> {"MEDIUM", "HIGH", "CRITICAL"}]

DocMatches(doc, f) == \A k \in DOMAIN f : doc[k] \in f[k]

\* the documents a filter selects, in natural order
Find(f) == SelectSeq(detections, LAMBDA d : DocMatches(d, f))

\* the values of a sequence without repetition, in order of first occurrence
RECURSIVE Dedup(_)
Dedup(seq) ==
    IF seq = <<>> THEN <<>>
    ELSE LET rest == Dedup(SubSeq(seq, 1, Len(seq) - 1))
             last == seq[Len(seq)]
         IN  IF InSeq(rest, last) THEN rest ELSE Append(rest, last)

\* faulty variant: the keys the ingestion attempts referenced, one entry per
\* attempt, instead of the keys of the stored documents
ReferencedIds(f) ==
    LET started == SelectSeq([a \in 1..MaxAttempts |-> a], LAMBDA a : pc[a] # "idle")
    IN  [i \in 1..Len(started) |-> sub[started[i]].unique_object_id]

\* collection.distinct("unique_object_id", f)
Distinct(f) ==
    LET docs == Find(f)
    IN  Dedup([i \in 1..Len(docs) |-> docs[i].unique_object_id])

\* distinct promises no order of the values: any arrangement of them
Orderings(seq) ==
    {p \in [1..Len(seq) -> Range(seq)] :
        \A i, j \in 1..Len(seq) : p[i] = p[j] => seq[i] = seq[j] /\ i = j}

\* faulty variant: the page always starts at the first key
SliceIgnoringSkip(seq, skip, limit) ==
    SubSeq(seq, 1, IF limit < Len(seq) THEN limit ELSE Len(seq))

\* unique_ids[skip:skip+limit] for skip >= 0 and limit >= 0
Slice(seq, skip, limit) ==
    SubSeq(seq, skip + 1, IF skip + limit < Len(seq) THEN skip + limit ELSE Len(seq))

\* find_one(f, sort=[("timestamp", -1)]): <<>> is None
FindOneLatest(f) ==
    LET docs == Find(f)
    IN  IF docs = <<>> THEN <<>>
        ELSE <<docs[CHOOSE i \in 1..Len(docs) :
                      \A j \in 1..Len(docs) :
                          \/ docs[j].timestamp < docs[i].timestamp
                          \/ docs[j].timestamp = docs[i].timestamp /\ i <= j]>>

\* datetime.isoformat()
IsoFormat(ts) == <<"iso", ts>>

\* detection["_id"] = str(detection["_id"]); the timestamp as ISO text
ToJson(doc) == [doc EXCEPT !._id = ObjectIdStr(@), !.timestamp = IsoFormat(@)]

\* get_detections 38-48 (get_alerts 143-153): one find_one per selected id
RECURSIVE Fetch(_, _)
Fetch(ids, f) ==
    IF ids = <<>> THEN <<>>
    ELSE LET found == FindOneLatest(Merge(f, [unique_object_id |-> {Head(ids)}]))
         IN  (IF found = <<>> THEN <<>> ELSE <<ToJson(found[1])>>)
                 \o Fetch(Tail(ids), f)

\* the body of get_detections and of get_alerts once the collection is there;
\* dbError: a call on the collection raises and "except Exception" answers
Select(kind, otype, level, limit, skip, f, dbError) ==
    LET records == IF kind = "list" THEN "detections" ELSE "alerts"
    IN  IF ~get_detections_collection
        THEN query' = Answer(kind, otype, level, limit, skip,
                             {records, "total", "error"}, <<>>, 0, NoCounts,
                             "Database not available")
        ELSE IF dbError
        THEN query' = Answer(kind, otype, level, limit, skip,
                             {records, "total", "error"}, <<>>, 0, NoCounts,
                             "ServerSelectionTimeoutError")
        ELSE \E unique_ids \in Orderings(Distinct(f)) :
                query' = Answer(kind, otype, level, limit, skip, {records, "total"},
                                Fetch(Slice(unique_ids, skip, limit), f),
                                Len(unique_ids), NoCounts, "")

\* GET /detections
get_detections(otype, level, limit, skip, dbError) ==
    /\ Select("list", otype, level, limit, skip, ListFilter(otype, level), dbError)
    /\ UNCHANGED <<collection, detections, uploads, system_state, pc, sub, result,
                   resp, faults, tasks, wsVars, twin>>

\* GET /alerts
get_alerts(limit, skip, dbError) ==
    /\ Select("alerts", "", "", limit, skip, AlertsFilter, dbError)
    /\ UNCHANGED <<collection, detections, uploads, system_state, pc, sub, result,
                   resp, faults, tasks, wsVars, twin>>

\* GET /detections/stats
get_detection_stats(dbError) ==
    /\ IF ~get_detections_collection
       THEN query' = Answer("stats", "", "", 0, 0, {"error"}, <<>>, 0, NoCounts,
                            "Database not available")
       ELSE IF dbError
       THEN query' = Answer("stats", "", "", 0, 0, {"error"}, <<>>, 0, NoCounts,
                            "ServerSelectionTimeoutError")
       ELSE query' = Answer("stats", "", "", 0, 0,
                            {"total", "by_type", "by_threat_level"}, <<>>,
                            Len(Distinct(EmptyFilter)),
                            [k \in StatTypes \cup StatLevels |->
                                IF k \in StatTypes
                                THEN Len(Distinct([object_type |-> {k}]))
                                ELSE Len(Distinct([threat_level |-> {k}]))],
                            "")
    /\ UNCHANGED <<collection, detections, uploads, system_state, pc, sub, result,
                   resp, faults, tasks, wsVars, twin>>

\* the query parameters tried
QueryTypes == {"", "weapon"}

QueryLevels == {"", "high"}

QueryLimits == {1, 2}

QuerySkips == {0, 1}

Queries ==
    \/ \E otype \in QueryTypes, level \in QueryLevels, limit \in QueryLimits,
          skip \in QuerySkips, dbError \in BOOLEAN :
          get_detections(otype, level, limit, skip, dbError)
    \/ \E limit \in QueryLimits, skip \in QuerySkips, dbError \in BOOLEAN :
          get_alerts(limit, skip, dbError)
    \/ \E dbError \in BOOLEAN : get_detection_stats(dbError)

\* the ingestion attempts and the queries over the same store
NextQuery ==
    \/ \E a \in Attempts :
          \/ \E s \in Submissions : Start(a, s)
          \/ Ingest(a)
    \/ Queries

SpecQuery == Init /\ [][NextQuery]_vars

\* ------------------------------------------------------- routes/system.py
\* POST /system/heartbeat: the probe of the detection system.  The guard
\* caps the number of refreshes.
update_heartbeat ==
    /\ system_state.last_frame_time < MaxAttempts + MaxBeats
    /\ system_state' = update_frame_timestamp(system_state)
    /\ UNCHANGED <<collection, detections, uploads, pc, sub, result, resp, faults,
                   tasks, query, twin, wsVars>>

\* GET /system/status: reads _system_state; uptime_seconds is the clock
\* minus start_time and is left out of the answer kept here
get_system_status ==
    /\ query' = Merge(Answer("status", "", "", 0, 0,
                             {"ai_running", "last_frame_time", "uptime_seconds"},
                             <<>>, 0, NoCounts, ""),
                      [ai_running |-> system_state.ai_running,
                       last_frame_time |-> system_state.last_frame_time])
    /\ UNCHANGED <<collection, detections, uploads, system_state, pc, sub, result,
                   resp, faults, tasks, wsVars, twin>>

\* the ingestion attempts, the probe, the status and stats queries, and the
\* subscribers with the broadcasts
NextHeart ==
    \/ \E a \in Attempts :
          \/ \E s \in Submissions : Start(a, s)
          \/ Ingest(a)
          \/ BroadcastStart(a)
          \/ SendDone(a)
    \/ update_heartbeat
    \/ get_system_status
    \/ \E dbError \in BOOLEAN : get_detection_stats(dbError)
    \/ \E c \in Channels :
          \/ Connect(c)
          \/ Greet(c)

SpecHeart == Init /\ [][NextHeart]_vars

\* ------------------------------------------------------------------- Next
\* the whole backend: MaxEvents ingestions, the channels and the broadcasts
Next ==
    \/ \E a \in 1..MaxEvents :
          \/ \E s \in Submissions : Start(a, s)
          \/ Ingest(a)
          \/ BroadcastStart(a)
          \/ SendDone(a)
    \/ \E c \in Channels :
          \/ Connect(c)
          \/ ClientDrop(c)
          \/ Greet(c)
          \/ ReceiveDisconnect(c)

Spec == Init /\ [][Next]_vars

\* ================================================================ claims
Keys == {s.unique_object_id : s \in ValidSubmissions}

QualifyingLevels == {"MEDIUM", "HIGH", "CRITICAL"}

Done(a) == pc[a] = "done"

Created(a) == Done(a) /\ resp[a].code = 200

Duplicate(a) == Done(a) /\ resp[a].code = 409

\* the duplicate was found by the unique index after a lost race
LostRace(a) == Duplicate(a) /\ result[a].message = "Duplicate unique_object_id"

RecordsOf(key) ==
    {i \in 1..Len(detections) : detections[i].unique_object_id = key}

\* no operation of attempt a was made to fail / none that ends it with an error
FaultFree(a) == \A f \in faults : f[1] # a

ErrorFree(a) == \A f \in faults : f[1] = a => f[2] = "remove"

\* the started attempts that submitted key with a well-formed form
SameKey(key) ==
    {a \in Attempts : /\ pc[a] # "idle"
                      /\ sub[a].unique_object_id = key
                      /\ Len(sub[a].image_bytes) > 0
                      /\ sub[a].content_type \in {"image/jpeg", "image/png"}}

C4_DuplicateAnswerReferencesCanonical ==
    \A a \in Attempts :
        Duplicate(a) =>
            \E b \in Attempts :
                /\ Created(b)
                /\ sub[b].unique_object_id = sub[a].unique_object_id
                /\ resp[a].data.document_id = resp[b].data.document_id
                /\ resp[a].data.image_url = resp[b].data.image_url

C6_AlertIffCreatedQualifying ==
    /\ \A a \in Attempts :
          (tasks[a].st # "none") <=>
              (Created(a) /\ sub[a].threat_level \in QualifyingLevels)
    /\ \A c \in Channels : \A i \in 1..Len(outbox[c]) :
          outbox[c][i].type = "alert" =>
              \E a \in Attempts :
                  /\ Created(a)
                  /\ sub[a].threat_level \in QualifyingLevels
                  /\ outbox[c][i].data = tasks[a].alert
                  /\ outbox[c][i].data.unique_object_id = sub[a].unique_object_id

\* C6 witness: a SAFE ingestion and a qualifying one were both created with a
\* subscriber listening; every broadcast has run and the subscriber holds the
\* one alert
C6_Witness ==
    \E a, b \in Attempts : \E c \in Channels :
        /\ Created(a) /\ sub[a].threat_level = "SAFE"
        /\ Created(b) /\ tasks[b].st = "done"
        /\ ws[c] = "recv" /\ open[c]
        /\ outbox[c] = <<ConnectionMessage, AlertMessage(tasks[b].alert)>>

\* C7: when the broadcast of a created HIGH ingestion has run, every channel
\* that was in the live set when the pass started (and is a live, connected
\* member still) has been sent the alert.
C7_HighAlertReachesEverySubscriber ==
    \A a \in Attempts :
        (Created(a) /\ sub[a].threat_level = "HIGH" /\ tasks[a].st = "done") =>
            \A c \in Range(tasks[a].start) :
                (open[c] /\ InSeq(active_connections, c)) =>
                    InSeq(outbox[c], AlertMessage(tasks[a].alert))

\* C8: after a broadcast pass, no channel whose send failed in it is in the
\* live set, every channel of the pass (the live set it started with) had its
\* delivery attempt, and the pass removed only channels whose send failed.
C8_FailedSendIsolated ==
    \A a \in Attempts :
        tasks[a].st = "done" =>
            /\ \A c \in Range(tasks[a].disconnected) : ~InSeq(active_connections, c)
            /\ Range(tasks[a].start) \subseteq tasks[a].attempted
            /\ tasks[a].pruned \subseteq Range(tasks[a].disconnected)

\* C9: the answer to the caller is a function of the store_image result alone
\* (200 with that result when created, 409 when duplicate), whatever the
\* broadcast did or will do; and the answer is out while the broadcast task is
\* still queued.
C9_ResponseIndependentOfBroadcast ==
    \A a \in Attempts :
        /\ result[a].status = "success" =>
              (Done(a) /\ resp[a] = HttpOk(SuccessResult(a, sub[a], a)))
        /\ result[a].status = "duplicate" => Duplicate(a)
        /\ tasks[a].st # "none" => Created(a)

\* C9 witness: a created ingestion was answered 200 and its broadcast later
\* ran with a failing send
C9_Witness ==
    \E a \in Attempts :
        /\ Created(a)
        /\ tasks[a].st = "done"
        /\ tasks[a].disconnected # <<>>

\* a form the validation refuses: empty payload, empty unique_object_id, or a
\* content type that is no image
Refused(s) ==
    \/ Len(s.image_bytes) = 0
    \/ s.unique_object_id = ""
    \/ s.content_type \notin {"image/jpeg", "image/png"}

\* C10: no step of an attempt whose form the validation refuses changes the
\* blob files, the records, the alerts handed over or any channel's messages.
C10_RefusedAttemptHasNoEffect ==
    [][\A a \in Attempts :
          (pc'[a] # pc[a] /\ Refused(sub'[a])) =>
              /\ uploads' = uploads
              /\ detections' = detections
              /\ tasks' = tasks
              /\ outbox' = outbox]_vars

\* C10 witness: an attempt was refused while the stores held another
\* attempt's record and blob
C10_Witness ==
    \E a, b \in Attempts :
        /\ Done(a) /\ Refused(sub[a]) /\ resp[a].code \in {400, 500}
        /\ Created(b)
        /\ uploads # {}
        /\ tasks[a].st = "none"

\* the attempt whose insert_one stored record i (its _id is the attempt's)
CreatorOf(i) == detections[i]._id

\* C11: an attempt whose blob write failed ends with the blob-write error
\* (500, "Failed to save image file") and has no record; and every persisted
\* record belongs to an attempt whose blob write succeeded: the file at the
\* record's filepath is on disk with the bytes that attempt submitted.
C11_NoRecordWithoutBlob ==
    /\ \A a \in Attempts :
          <<a, "write">> \in faults =>
              /\ Done(a)
              /\ resp[a].code = 500
              /\ resp[a].detail = "Failed to save image file"
              /\ result[a].status = "none"
              /\ \A i \in 1..Len(detections) : CreatorOf(i) # a
    /\ \A i \in 1..Len(detections) :
          /\ <<CreatorOf(i), "write">> \notin faults
          /\ [path |-> detections[i].filepath,
              bytes |-> sub[CreatorOf(i)].image_bytes] \in uploads

\* C11 witness: one attempt's blob write failed, leaving a truncated file,
\* while another attempt for the same key created the record
C11_Witness ==
    \E a, b \in Attempts :
        /\ <<a, "write">> \in faults
        /\ Done(a)
        /\ [path |-> FilePathOf(a), bytes |-> <<>>] \in uploads
        /\ Created(b)
        /\ sub[a].unique_object_id = sub[b].unique_object_id

ClientError == (400..499) \ {409}

ServerError == 500..599

\* C13: every completed attempt is answered with the status class of its
\* cause: a refused form (empty payload, non-image content type, empty
\* unique_object_id) with a client error; otherwise 200 when its record was
\* created, 409 when the key was already known, and a server error only when
\* the store was unavailable or a storage or blob operation of the attempt
\* failed.
C13_StatusClassOfCause ==
    \A a \in Attempts :
        Done(a) =>
            LET s == sub[a]
                code == resp[a].code
            IN  /\ Refused(s) => code \in ClientError
                /\ ~Refused(s) =>
                      \/ /\ code = 200
                         /\ \E i \in 1..Len(detections) : CreatorOf(i) = a
                      \/ /\ code = 409
                         /\ \E i \in RecordsOf(s.unique_object_id) : CreatorOf(i) # a
                      \/ /\ code \in ServerError
                         /\ \/ ~collection
                            \/ \E op \in {"find_one", "write", "insert_one"} :
                                  <<a, op>> \in faults

\* C14: no step changes or removes a stored record or the blob at a stored
\* record's filepath (the store only grows, by insertion of records for new
\* keys); and a completed duplicate attempt has left no blob of its own: one
\* that found the key in the pre-check never wrote any, and one that lost the
\* insertion race has removed the blob it wrote, unless that removal failed.
C14_RecordAndBlobImmutable ==
    /\ [][/\ Len(detections') >= Len(detections)
          /\ \A i \in 1..Len(detections) :
                /\ detections'[i] = detections[i]
                /\ \A f \in uploads :
                      f.path = detections[i].filepath => f \in uploads']_vars
    /\ [](\A a \in Attempts :
            (Duplicate(a) /\ <<a, "remove">> \notin faults) =>
                \A f \in uploads : f.path # FilePathOf(a))

\* C14 witness: a key was created, its alert was broadcast, and a later
\* attempt for the key with other bytes ended as a duplicate; the one blob on
\* disk holds the creator's bytes
C14_Witness ==
    \E a, b \in Attempts :
        /\ Created(a) /\ tasks[a].st = "done"
        /\ Duplicate(b) /\ ~LostRace(b)
        /\ sub[a].unique_object_id = sub[b].unique_object_id
        /\ sub[a].image_bytes # sub[b].image_bytes
        /\ uploads = {[path |-> FilePathOf(a), bytes |-> sub[a].image_bytes]}

\* C15: manager.disconnect for a channel that is not in the live set (already
\* removed, or pruned by a broadcast pass) completes without error: no
\* channel handler ever ends in the ValueError of list.remove.
C15_UnsubscribeIdempotent ==
    \A c \in Channels : ws[c] # "crashed"

\* the keys that have a stored record, and those among them whose record has
\* the given value in the given field
StoredKeys == {detections[i].unique_object_id : i \in 1..Len(detections)}

StoredKeysWith(field, value) ==
    {detections[i].unique_object_id :
        i \in {j \in 1..Len(detections) : detections[j][field] = value}}

\* the attempts, of any outcome, that referenced the key
Referencing(key) == {a \in Attempts : pc[a] # "idle" /\ sub[a].unique_object_id = key}

\* what C16 asks of the answer q of a query over the store as it is
CountsKeysOnce(q) ==
    /\ (q.kind = "stats" /\ q.error = "") =>
          /\ q.total = Cardinality(StoredKeys)
          /\ \A t \in StatTypes :
                q.counts[t] = Cardinality(StoredKeysWith("object_type", t))
          /\ \A l \in StatLevels :
                q.counts[l] = Cardinality(StoredKeysWith("threat_level", l))
    /\ (q.kind = "list" /\ q.error = "" /\ q.object_type = "" /\ q.threat_level = "") =>
          q.total = Cardinality(StoredKeys)

\* C16: every count a query answers with counts each stored key once,
\* however many attempts referenced it: the stats total and the total of an
\* unfiltered list are the number of stored keys, each by_type count is the
\* number of stored keys of that object_type, each by_threat_level count the
\* number of stored keys of that threat_level; a stored key is counted in
\* exactly one by_type and one by_threat_level count, a key without a record
\* in none.
C16_EachKeyCountedOnce ==
    /\ [][query' # query => CountsKeysOnce(query')]_vars
    /\ [](\A key \in StoredKeys :
            /\ Cardinality({t \in StatTypes :
                               key \in StoredKeysWith("object_type", t)}) = 1
            /\ Cardinality({l \in StatLevels :
                               key \in StoredKeysWith("threat_level", l)}) = 1)

\* C16 witness: a key was referenced by two attempts, one created and one
\* duplicate, and the stats answer counts one key
C16_Witness ==
    /\ query.kind = "stats"
    /\ query.total = 1
    /\ Cardinality(StoredKeys) = 1
    /\ \E a, b \in Attempts :
          /\ Created(a) /\ Duplicate(b)
          /\ Referencing(sub[a].unique_object_id) = {a, b}

\* C17: the threat_level of every stored record is the value its creating
\* attempt submitted, and the threat_level of every alert handed to the
\* broadcaster or sent on a channel is the value submitted by the attempt it
\* comes from, which is also the value in that attempt's record.
C17_ThreatLevelVerbatim ==
    /\ \A i \in 1..Len(detections) :
          detections[i].threat_level = sub[CreatorOf(i)].threat_level
    /\ \A a \in Attempts :
          tasks[a].st # "none" =>
              /\ tasks[a].alert.threat_level = sub[a].threat_level
              /\ \E i \in 1..Len(detections) :
                    /\ CreatorOf(i) = a
                    /\ detections[i].threat_level = tasks[a].alert.threat_level
    /\ \A c \in Channels : \A i \in 1..Len(outbox[c]) :
          outbox[c][i].type = "alert" =>
              \E a \in Attempts :
                  /\ outbox[c][i].data = tasks[a].alert
                  /\ outbox[c][i].data.threat_level = sub[a].threat_level

\* C17 witness: a CRITICAL and a HIGH submission were created and a channel
\* holds the alert of the CRITICAL one
C17_Witness ==
    \E a, b \in Attempts : \E c \in Channels :
        /\ Created(a) /\ sub[a].threat_level = "CRITICAL"
        /\ Created(b) /\ sub[b].threat_level = "HIGH"
        /\ InSeq(outbox[c], AlertMessage(tasks[a].alert))
        /\ tasks[a].alert.threat_level = "CRITICAL"

\* the threat level a list filter names (the filter is not case sensitive)
NamedLevel(level) == IF level = "high" THEN "HIGH" ELSE level

\* the stored records the parameters of the list or alerts query q select,
\* and their keys
Selected(q) ==
    {i \in 1..Len(detections) :
        IF q.kind = "alerts"
        THEN detections[i].threat_level \in {"MEDIUM", "HIGH", "CRITICAL"}
        ELSE /\ q.object_type = "" \/ detections[i].object_type = q.object_type
             /\ q.threat_level = ""
                   \/ detections[i].threat_level = NamedLevel(q.threat_level)}

SelectedKeys(q) == {detections[i].unique_object_id : i \in Selected(q)}

\* the size of the page skip/limit cut out of n keys
PageSize(n, skip, limit) ==
    IF n <= skip THEN 0 ELSE IF n - skip < limit THEN n - skip ELSE limit

\* what C18 asks of the answer q of a list or alerts query over the store
PagesOverKeys(q) ==
    (q.kind \in {"list", "alerts"} /\ q.error = "") =>
        /\ q.total = Cardinality(SelectedKeys(q))
        /\ Len(q.items) <= q.limit
        /\ Len(q.items) = PageSize(Cardinality(SelectedKeys(q)), q.skip, q.limit)
        /\ \A i, j \in 1..Len(q.items) :
              q.items[i].unique_object_id = q.items[j].unique_object_id => i = j
        /\ \A i \in 1..Len(q.items) :
              \E k \in Selected(q) : q.items[i] = ToJson(detections[k])

\* C18: the answer of get_detections and of get_alerts holds one record per
\* key of a page of the selected key set: total is the number of stored keys
\* whose record matches the filter, whatever skip and limit are; the page
\* has the size skip then limit leave of that key set, at most limit; no key
\* is answered twice; and every record answered is the stored record of a
\* selected key.
C18_PageOfDistinctKeys ==
    [][query' # query => PagesOverKeys(query')]_vars

\* C18 witness: two keys match, and the second page of size one was answered
C18_Witness ==
    /\ query.kind = "list"
    /\ query.error = ""
    /\ query.skip = 1 /\ query.limit = 1
    /\ query.total = 2
    /\ Len(query.items) = 1
    /\ Cardinality(SelectedKeys(query)) = 2

\* C19: a completed broadcast pass has attempted delivery to exactly the
\* channels that were in the live set when the pass started.
C19_PassDeliversOverSnapshot ==
    \A a \in Attempts :
        tasks[a].st = "done" => tasks[a].attempted = Range(tasks[a].start)

\* C20: whenever a broadcast pass is under way, every channel that was in
\* the live set at its start and has not itself stopped reading is
\* eventually sent the event, even if the send to another channel of the
\* pass never completes.
C20_DeliveryIndependent ==
    \A a \in Attempts : \A c \in Channels :
        (tasks[a].st = "sending" /\ InSeq(tasks[a].start, c) /\ ~Stalled(c))
            ~> (InSeq(outbox[c], AlertMessage(tasks[a].alert)) \/ Stalled(c))

\* the number of times x occurs in seq
Count(seq, x) == Cardinality({i \in 1..Len(seq) : seq[i] = x})

\* C21: an alert event is sent to a channel at most once; a pass never
\* awaits a second send (successful or failed) to a channel it has already
\* attempted; and once the pass of an event has completed the event is sent
\* to nobody any more, so a channel that subscribes later never receives it.
C21_AtMostOnceNeverReplayed ==
    /\ [](\A a \in Attempts : \A c \in Channels :
            Count(outbox[c], AlertMessage(tasks[a].alert)) <= 1)
    /\ [][\A a \in Attempts :
            /\ (tasks[a]' # tasks[a] /\ tasks[a]'.st = "sending") =>
                    tasks[a]'.cur \notin tasks[a]'.attempted
            /\ tasks[a].st = "done" =>
                    \A c \in Channels :
                        Count(outbox[c]', AlertMessage(tasks[a].alert))
                            = Count(outbox[c], AlertMessage(tasks[a].alert))]_vars

\* a pass with a failed send to channel 1 has completed; channel 2, which the
\* pass never attempted, is subscribed and greeted and has no alert
C21_Witness ==
    \E a \in Attempts :
        /\ tasks[a].st = "done"
        /\ tasks[a].disconnected = <<1>>
        /\ tasks[a].attempted = {1}
        /\ ws[2] = "recv" /\ open[2]
        /\ outbox[2] = <<ConnectionMessage>>

\* no attempt is in progress, in the model or in the twin
Settled ==
    /\ InStep
    /\ \A a \in Attempts : pc[a] \in {"idle", "done"} /\ twin.pc[a] = pc[a]

Paths(files) == {f.path : f \in files}

\* C23: a blob disappears from the uploads directory only in the os.remove
\* step of an attempt whose insert_one hit the unique index (the key is
\* stored and its insert_one was not made to fail otherwise), and it is the
\* file that attempt wrote; the blob at a stored record's filepath is never
\* removed; and an attempt whose os.remove failed still ends as a duplicate
\* (when its second find_one answers).
C23_RetractOnlyOwnBlobAfterLostRace ==
    /\ [][\A p \in Paths(uploads) \ Paths(uploads') :
            \E a \in Attempts :
                /\ pc[a] = "remove" /\ pc[a]' = "refetch"
                /\ DuplicateKey(sub[a].unique_object_id)
                /\ <<a, "insert_one">> \notin faults
                /\ p = FilePathOf(a)
                /\ \A i \in 1..Len(detections) : detections[i].filepath # p]_vars
    /\ [](\A a \in Attempts :
            (Done(a) /\ <<a, "remove">> \in faults /\ <<a, "find_one">> \notin faults)
                => Duplicate(a) /\ LostRace(a))

\* attempt 2 lost the race to attempt 1, its os.remove failed and it ended as
\* a duplicate: its blob is still there next to the stored record's blob
C23_Witness ==
    /\ Created(1) /\ LostRace(2)
    /\ faults = {<<2, "remove">>}
    /\ Paths(uploads) = {FilePathOf(1), FilePathOf(2)}
    /\ Len(detections) = 1 /\ detections[1].filepath = FilePathOf(1)

\* C24: a channel is sent the connection message at most once, a channel
\* whose handler is in its receive loop has been sent it exactly once, and
\* whatever a channel has been sent starts with the connection message: no
\* alert precedes it, even when a broadcast pass reaches the channel while
\* its greeting is still on its way.
C24_ConnectionMessageFirst ==
    \A c \in Channels :
        /\ Count(outbox[c], ConnectionMessage) <= 1
        /\ ws[c] = "recv" => Count(outbox[c], ConnectionMessage) = 1
        /\ outbox[c] # <<>> => Head(outbox[c]) = ConnectionMessage

\* channel 2 registered while a pass was awaiting its send to channel 1; the
\* pass went on to channel 2 while the greeting of channel 2 was on its way,
\* and channel 2 got the greeting first, then the alert
C24_Witness ==
    \E a \in Attempts :
        /\ tasks[a].st = "done"
        /\ tasks[a].start = <<1>>
        /\ tasks[a].attempted = {1, 2}
        /\ outbox[2] = <<ConnectionMessage, AlertMessage(tasks[a].alert)>>

\* C25: a channel whose handler has ended, because a send or a receive on
\* it failed, is no longer in the live set: the handler that detects the
\* failure removes the channel then, not a later broadcast pass.
C25_RemovedWhenFailureDetected ==
    \A c \in Channels :
        ws[c] \in {"closed", "crashed"} => ~InSeq(active_connections, c)

\* C26: on every channel the pongs sent never outnumber the pings received,
\* and when the handler is back in its receive loop each ping received has
\* been answered with one pong and no other text with anything; receiving a
\* text and sending the pong change neither the live set nor what any other
\* channel has been sent, and add nothing but the pong to the channel's own.
C26_PingAnsweredWithOnePong ==
    /\ [](\A c \in Channels :
            /\ Count(outbox[c], PongMessage) <= Count(inbox[c], "ping")
            /\ ws[c] = "recv" =>
                   Count(outbox[c], PongMessage) = Count(inbox[c], "ping"))
    /\ [][\A c \in Channels :
            (inbox[c]' # inbox[c] \/ (ws[c] = "pong" /\ ws[c]' # "pong")) =>
                /\ active_connections' = active_connections
                /\ \A d \in Channels \ {c} : outbox[d]' = outbox[d]
                /\ \/ outbox[c]' = outbox[c]
                   \/ /\ ws[c] = "pong"
                      /\ outbox[c]' = Append(outbox[c], PongMessage)]_vars

\* channel 1 sent "status" and then "ping" and has been sent one pong after
\* its connection message, while channel 2 sits in its receive loop untouched
C26_Witness ==
    /\ inbox[1] = <<"status", "ping">>
    /\ ws[1] = "recv"
    /\ outbox[1] = <<ConnectionMessage, PongMessage>>
    /\ ws[2] = "recv" /\ inbox[2] = <<>> /\ outbox[2] = <<ConnectionMessage>>
    /\ active_connections = <<1, 2>>

Started == {a \in Attempts : pc[a] # "idle"}

\* C27: start_time never changes; the step in which an ingestion attempt
\* enters the handler and the heartbeat probe both set ai_running and move
\* last_frame_time forward, whatever the attempt's outcome turns out to be;
\* a step that changes the heartbeat state is one of these two (the probe
\* changes nothing else); the status query, the other queries, the
\* subscribers and the broadcasts leave the heartbeat state as it is.
C27_HeartbeatFrame ==
    /\ [][/\ system_state'.start_time = system_state.start_time
          /\ Started' # Started =>
                /\ system_state'.ai_running
                /\ system_state'.last_frame_time > system_state.last_frame_time
          /\ system_state' # system_state =>
                /\ system_state'.ai_running
                /\ system_state'.last_frame_time > system_state.last_frame_time
                /\ \/ Started' # Started
                   \/ UNCHANGED <<collection, detections, uploads, pc, sub, result,
                                  resp, faults, tasks, query, twin, wsVars>>
          /\ (query' # query \/ wsVars' # wsVars \/ tasks' # tasks) /\ Started' = Started
                => system_state' = system_state]_vars
    /\ [](/\ Started # {} => system_state.ai_running
          /\ system_state.last_frame_time >= Cardinality(Started))

\* attempt 1 was refused for its content type, attempt 2 failed on its blob
\* write, one probe came in, and the status query has shown the state: three
\* refreshes, start_time as it was
C27_Witness ==
    /\ Done(1) /\ resp[1].code = 400
    /\ Done(2) /\ resp[2].code = 500 /\ <<2, "write">> \in faults
    /\ system_state = [ai_running |-> TRUE, last_frame_time |-> 3, start_time |-> 0]
    /\ query.kind = "status" /\ query.last_frame_time = 3

\* the record that the ingestion of attempt a created
RecordOf(a) == detections[CHOOSE i \in 1..Len(detections) : detections[i]._id = a]

Emitted(a) == tasks[a].st # "none"

\* the fields of an alert that the record carries under the same name
CopiedFields ==
    {"object_type", "category", "threat_level", "camera_id", "unique_object_id",
     "confidence", "location", "image_url"}

\* C28: every field of an emitted alert has the value of the same field of
\* the record its ingestion created: the copied fields as they are (a field
\* the record lacks reads as None), document_id the record's _id as text,
\* timestamp the record's timestamp as text, filename the record's filename.
C28_AlertIsSubsetOfRecord ==
    \A a \in Attempts :
        Emitted(a) =>
            /\ \A f \in CopiedFields : tasks[a].alert[f] = Get(RecordOf(a), f, None)
            /\ tasks[a].alert.document_id = ObjectIdStr(RecordOf(a)._id)
            /\ tasks[a].alert.timestamp = IsoFormat(RecordOf(a).timestamp)
            /\ tasks[a].alert.filename = RecordOf(a).filename

\* C29: the filename of every stored record is the generated name of its
\* blob (the file at its filepath, the last segment of its image_url), and
\* the filename in a created answer equals the filename in every duplicate
\* answer for the same key.
C29_FilenameIsGeneratedToken ==
    /\ \A i \in 1..Len(detections) :
          /\ detections[i].filename.gen
          /\ detections[i].filepath = FilePath(detections[i].filename)
          /\ detections[i].image_url = ImageUrl(detections[i].filename)
    /\ \A a, b \in Attempts :
          (/\ Created(a) /\ Duplicate(b)
           /\ sub[a].unique_object_id = sub[b].unique_object_id)
              => result[b].filename = result[a].filename

\* C30: whenever every started ingestion attempt has returned, the files of
\* the uploads directory are exactly the files at the filepaths of the stored
\* records, one per record.
C30_NoOrphanBlobAtRest ==
    (\A a \in Attempts : pc[a] \in {"idle", "done"}) =>
        /\ Paths(uploads) = {detections[i].filepath : i \in 1..Len(detections)}
        /\ Cardinality(uploads) = Len(detections)
====
